---- MODULE Spec2Model ----
(***************************************************************************)
(* Battery plugin: the HID reader (src/src/hidReader.js) and the polling   *)
(* scheduler with its config loader (src/src/plugin.js, second module of   *)
(* the file, lines 401-728).                                               *)
(*                                                                         *)
(* JavaScript runs every task to completion.  The variable `running` names *)
(* the read frame whose synchronous code (or microtask continuation) is    *)
(* executing; host events and timers are macrotasks and are taken only     *)
(* when running = 0.  A call of pollAndUpdate is the last statement of     *)
(* every handler that makes it, so the handler's action ends by handing    *)
(* control to the read it started.                                         *)
(***************************************************************************)
EXTENDS Integers, Sequences, FiniteSets, TLC

\* ------------------------------------------------------------- bounds
\* Read frames that can exist at once (the code has no such limit: a frame
\* is one activation of pollAndUpdate/readBatteryPercentage).
MaxFrames == 2
\* Forced requests (plugin.data) counted while one poll is in flight.
MaxForced == 2
\* Transport-not-ready failures the config service produces in a row.
MaxConfigRetries == 1
\* Entries of the longest enumeration the locator is run on.
MaxDevices == 3
\* Transport-not-ready failures in a row where the backoff is followed.
MaxBackoff == 6
\* How far the counters of a read that never ends are followed.
MaxCounted == 4

\* ------------------------------------------------- program constants
DEFAULT_VENDOR_ID == 12625
DEFAULT_PRODUCT_ID == 20487
ANGRY_MIAO_REPORT_ID == 247
MIN_POLL_INTERVAL_MS == 5000
CONFIG_RETRY_BASE_DELAY_MS == 1000
CONFIG_RETRY_MAX_DELAY_MS == 10000

\* ------------------------------------------------------------ strings
\* A string is a sequence of one-character strings.
UpperCase == <<"A", "B", "C", "D", "E", "F", "H", "I", "M", "X">>
LowerCase == <<"a", "b", "c", "d", "e", "f", "h", "i", "m", "x">>

ToLowerChar(c) ==
    IF \E i \in 1..Len(UpperCase) : UpperCase[i] = c
    THEN LowerCase[CHOOSE i \in 1..Len(UpperCase) : UpperCase[i] = c]
    ELSE c

ToLowerCase(s) == [i \in 1..Len(s) |-> ToLowerChar(s[i])]

RECURSIVE Trim(_)
Trim(s) ==
    IF s = <<>> THEN s
    ELSE IF Head(s) = " " THEN Trim(Tail(s))
    ELSE IF s[Len(s)] = " " THEN Trim(SubSeq(s, 1, Len(s) - 1))
    ELSE s

Includes(s, sub) ==
    \E i \in 0..(Len(s) - Len(sub)) : SubSeq(s, i + 1, i + Len(sub)) = sub

StartsWith(s, pre) == Len(s) >= Len(pre) /\ SubSeq(s, 1, Len(pre)) = pre

EndsWith(s, suf) ==
    Len(s) >= Len(suf) /\ SubSeq(s, Len(s) - Len(suf) + 1, Len(s)) = suf

HexDigits == <<"0", "1", "2", "3", "4", "5", "6", "7", "8", "9",
               "a", "b", "c", "d", "e", "f">>

DigitValue(c) ==
    IF \E i \in 1..16 : HexDigits[i] = c
    THEN (CHOOSE i \in 1..16 : HexDigits[i] = c) - 1
    ELSE 99

\* Number.parseInt(s, radix) on an unsigned string without leading blanks:
\* the value of the longest prefix of digits below the radix; NaN (here
\* NotANumber) when that prefix is empty.
NotANumber == -1

RECURSIVE ParseDigits(_, _, _)
ParseDigits(s, radix, acc) ==
    IF s = <<>> \/ DigitValue(Head(s)) >= radix THEN acc
    ELSE ParseDigits(Tail(s), radix, acc * radix + DigitValue(Head(s)))

ParseInt(s, radix) ==
    IF s = <<>> \/ DigitValue(Head(s)) >= radix THEN NotANumber
    ELSE ParseDigits(s, radix, 0)

\* parseConfigInt on a string; Undefined is the result `undefined`.
Undefined == -2

ParseConfigInt(raw) ==
    LET value == ToLowerCase(Trim(raw))
        orUndef(n) == IF n = NotANumber THEN Undefined ELSE n
    IN  IF value = <<>> THEN Undefined
        ELSE IF StartsWith(value, <<"0", "x">>)
             THEN orUndef(ParseInt(SubSeq(value, 3, Len(value)), 16))
        ELSE IF EndsWith(value, <<"h">>)
             THEN orUndef(ParseInt(SubSeq(value, 1, Len(value) - 1), 16))
        ELSE orUndef(ParseInt(value, 10))

Max(a, b) == IF a >= b THEN a ELSE b
Min(a, b) == IF a <= b THEN a ELSE b


RECURSIVE ToDecimal(_)
\* String(n) for a non-negative integer n.
ToDecimal(n) ==
    IF n < 10 THEN <<HexDigits[n + 1]>>
    ELSE ToDecimal(n \div 10) \o <<HexDigits[(n % 10) + 1]>>

\* ------------------------------------------------------ configuration
\* A raw field as the host delivers it: its JavaScript type, its text when
\* it is a string, and what Number(field) gives: NaN (nan), Infinity (inf)
\* or the number n + frac / 10, n its floor.
RawUndefined == [t |-> "undefined", s |-> <<>>, nan |-> TRUE, n |-> 0, frac |-> 0, inf |-> FALSE]
RawNumber(n) == [t |-> "number", s |-> <<>>, nan |-> FALSE, n |-> n, frac |-> 0, inf |-> FALSE]
RawText(s) == [t |-> "string", s |-> s, nan |-> TRUE, n |-> 0, frac |-> 0, inf |-> FALSE]
RawNumeral(s, n) == [t |-> "string", s |-> s, nan |-> FALSE, n |-> n, frac |-> 0, inf |-> FALSE]
\* The number n + frac / 10, the string "Infinity", and null.
RawFraction(n, frac) == [t |-> "number", s |-> <<>>, nan |-> FALSE, n |-> n, frac |-> frac, inf |-> FALSE]
RawInfinite == [t |-> "string", s |-> <<"Infinity">>, nan |-> FALSE, n |-> 0, frac |-> 0, inf |-> TRUE]
RawNull == [t |-> "object", s |-> <<>>, nan |-> FALSE, n |-> 0, frac |-> 0, inf |-> FALSE]

\* Infinity, as a number above every number of the model.
Infinity == 2000000

\* Math.floor(Number(field)), and Number(field) of a field without tenths.
NumberOf(f) == IF f.inf THEN Infinity ELSE f.n

\* `undefined`, `null` or a non-object in place of the raw config object.
NoRaw == [isObject |-> FALSE]

RawObject(hidPath, vid, pid, poll, delay, retry) ==
    [isObject |-> TRUE, hidPath |-> hidPath, vid |-> vid, pid |-> pid,
     pollIntervalSeconds |-> poll, initDelayMs |-> delay, retryCount |-> retry]

DEFAULT_CONFIG ==
    [hidPath |-> <<>>, vid |-> <<>>, pid |-> <<>>,
     pollIntervalSeconds |-> 30, initDelayMs |-> 50, retryCount |-> 3]

\* String(field).trim() of a string or number field.
FieldText(f) == Trim(IF f.t = "number" THEN ToDecimal(f.n) ELSE f.s)

\* Fields with tenths are given for retryCount only, where Math.floor drops
\* them.
buildConfig(raw) ==
    IF ~raw.isObject THEN DEFAULT_CONFIG
    ELSE
      [hidPath |-> IF raw.hidPath.t = "string" THEN Trim(raw.hidPath.s)
                   ELSE DEFAULT_CONFIG.hidPath,
       vid |-> IF raw.vid.t \in {"string", "number"} THEN FieldText(raw.vid)
               ELSE DEFAULT_CONFIG.vid,
       pid |-> IF raw.pid.t \in {"string", "number"} THEN FieldText(raw.pid)
               ELSE DEFAULT_CONFIG.pid,
       initDelayMs |->
           IF /\ raw.initDelayMs.t \in {"string", "number"}
              /\ ~raw.initDelayMs.nan
              /\ NumberOf(raw.initDelayMs) >= 0
           THEN NumberOf(raw.initDelayMs) ELSE DEFAULT_CONFIG.initDelayMs,
       retryCount |->
           IF /\ raw.retryCount.t \in {"string", "number"}
              /\ ~raw.retryCount.nan
              /\ NumberOf(raw.retryCount) >= 1
           THEN NumberOf(raw.retryCount) ELSE DEFAULT_CONFIG.retryCount,
       pollIntervalSeconds |->
           IF ~raw.pollIntervalSeconds.nan /\ NumberOf(raw.pollIntervalSeconds) > 0
           THEN NumberOf(raw.pollIntervalSeconds)
           ELSE DEFAULT_CONFIG.pollIntervalSeconds]

\* getPollIntervalMs without the floor.
getPollIntervalMsNoFloor(config) == config.pollIntervalSeconds * 1000

getPollIntervalMs(config) ==
    Max(MIN_POLL_INTERVAL_MS, config.pollIntervalSeconds * 1000)

\* The raw config objects the host can deliver (getConfig and config push).
PinnedPath == <<"p", "1">>

RawConfigs ==
    { NoRaw,
      \* a pinned path with ids also set, no settle delay, a single attempt
      RawObject(RawText(<<" ">> \o PinnedPath), RawText(<<"0", "x", "1", "0">>),
                RawNumber(7), RawNumber(10), RawNumber(0), RawNumber(1)),
      \* an interval below the floor, two attempts, the default delay
      RawObject(RawUndefined, RawUndefined, RawUndefined,
                RawNumeral(<<"3">>, 3), RawUndefined, RawNumber(2)),
      \* every numeric field invalid: all defaults
      RawObject(RawText(<<>>), RawText(<<>>), RawUndefined,
                RawNumber(-1), RawText(<<"x">>), RawNumber(0)) }

\* Raw configs with absent, null, non-numeric, negative, zero, fractional,
\* infinite and valid fields.
AnyRawConfigs ==
    { RawObject(hidPath, RawUndefined, RawUndefined, poll, delay, retry) :
        hidPath \in {RawUndefined, RawText(<<" ">> \o PinnedPath)},
        poll \in {RawUndefined, RawNull, RawText(<<"x">>), RawNumber(-1),
                  RawNumeral(<<"3">>, 3)},
        delay \in {RawUndefined, RawText(<<"x">>), RawNumber(-5),
                   RawNumber(0), RawInfinite},
        retry \in {RawUndefined, RawNull, RawText(<<"x">>), RawNumber(0),
                   RawFraction(0, 5), RawFraction(2, 7), RawInfinite} }
    \cup {NoRaw}

\* The raw configs a host delivers, by the host's kind.
hostConfigs(kind) == IF kind = "any" THEN AnyRawConfigs ELSE RawConfigs

\* ------------------------------------------------------- HID transport
\* What the transport reports when a call throws.
DeviceMsgs == {"EBUSY", "ENODEV"}

NoIface == -1

\* One entry of HID.devices().
Info(vendorId, productId, path, iface, ifaceNumber) ==
    [vendorId |-> vendorId, productId |-> productId, path |-> path,
     interface |-> iface, interfaceNumber |-> ifaceNumber]

PathA == <<"a">>
PathB == <<"b">>
PathMi == <<"x", "&", "M", "I", "_", "0", "2">>

\* The enumerations HID.devices() can return.
DeviceLists ==
    { <<>>,
      << Info(1, DEFAULT_PRODUCT_ID, PathMi, 2, NoIface),
         Info(DEFAULT_VENDOR_ID, DEFAULT_PRODUCT_ID, PathA, 0, NoIface),
         Info(DEFAULT_VENDOR_ID, DEFAULT_PRODUCT_ID, PathB, NoIface, 2) >>,
      << Info(DEFAULT_VENDOR_ID, DEFAULT_PRODUCT_ID, <<>>, 2, NoIface),
         Info(DEFAULT_VENDOR_ID, DEFAULT_PRODUCT_ID, PathA, 1, NoIface),
         Info(DEFAULT_VENDOR_ID, DEFAULT_PRODUCT_ID, PathMi, 1, NoIface) >> }

\* normalisePath: a string path as it is; no path (here the empty string)
\* for a missing or empty one.
normalisePath(path) == path

\* Array.prototype.find: the first entry that satisfies Test, as a
\* sequence of length 0 or 1.
Find(seq, Test(_)) ==
    LET hits == SelectSeq(seq, Test)
    IN  IF hits = <<>> THEN <<>> ELSE <<Head(hits)>>

\* findDevicePath that takes the first match, whatever its interface.
findDevicePathFirst(devices, vid, pid) ==
    LET isMatch(info) ==
            /\ info.vendorId = vid
            /\ info.productId = pid
            /\ normalisePath(info.path) # <<>>
        matches == SelectSeq(devices, isMatch)
    IN  IF matches = <<>> THEN <<>> ELSE normalisePath(matches[1].path)

\* findDevicePath once HID.devices() has returned `devices`; the empty
\* string stands for the result `undefined`.
findDevicePath(devices, vid, pid) ==
    LET isMatch(info) ==
            /\ info.vendorId = vid
            /\ info.productId = pid
            /\ normalisePath(info.path) # <<>>
        matches == SelectSeq(devices, isMatch)
        isExact(info) ==
            (IF info.interface # NoIface THEN info.interface
             ELSE info.interfaceNumber) = 2
        exactInterface == Find(matches, isExact)
        isPreferred(info) ==
            Includes(ToLowerCase(normalisePath(info.path)),
                     <<"m", "i", "_", "0", "2">>)
        preferredPath == Find(matches, isPreferred)
    IN  IF matches = <<>> THEN <<>>
        ELSE IF exactInterface # <<>> THEN normalisePath(exactInterface[1].path)
        ELSE IF preferredPath # <<>> THEN normalisePath(preferredPath[1].path)
        ELSE normalisePath(matches[1].path)

\* What getFeatureReport returns: null, or an array of bytes.
NullReport == [present |-> FALSE, bytes |-> <<>>]
Report(bytes) == [present |-> TRUE, bytes |-> bytes]

\* The battery bytes the device reports (offset 3 of a valid report).
BatteryBytes == {0, 57, 100, 250}

Reports ==
    {NullReport,
     Report(<<ANGRY_MIAO_REPORT_ID, 0, 0>>),
     Report(<<63, 0, 0, 57>>)}
    \cup {Report(<<ANGRY_MIAO_REPORT_ID, 0, 0, b>>) : b \in BatteryBytes}

\* What the transport can do in a run: the texts its calls throw, the
\* enumerations HID.devices() returns, the results of getFeatureReport; and
\* how often in a row plugin.getConfig() fails for a transport not ready,
\* and the kind of raw configs the host delivers.
FullTransport ==
    [enumMsgs |-> DeviceMsgs, openMsgs |-> DeviceMsgs, sendMsgs |-> DeviceMsgs,
     getMsgs |-> DeviceMsgs, devices |-> DeviceLists, reports |-> Reports,
     notReady |-> MaxConfigRetries, configs |-> "usual"]

\* A transport of which only the init write throws: a read fails also by
\* finding no device or by an absent report.
SmallTransport ==
    [enumMsgs |-> {}, openMsgs |-> {}, sendMsgs |-> {"EBUSY"}, getMsgs |-> {},
     devices |-> {<<>>, <<Info(DEFAULT_VENDOR_ID, DEFAULT_PRODUCT_ID, PathA, 2, NoIface)>>},
     reports |-> {NullReport, Report(<<ANGRY_MIAO_REPORT_ID, 0, 0, 57>>)},
     notReady |-> MaxConfigRetries, configs |-> "usual"]

\* The entries an enumeration is made of: another vendor's device on
\* interface 2, one of ours without a usable path, two plain ones, one on
\* interface 2 (told by interfaceNumber), one with MI_02 in its path.
DeviceInfos ==
    { Info(1, DEFAULT_PRODUCT_ID, PathMi, 2, NoIface),
      Info(DEFAULT_VENDOR_ID, DEFAULT_PRODUCT_ID, <<>>, 2, NoIface),
      Info(DEFAULT_VENDOR_ID, DEFAULT_PRODUCT_ID, PathA, 1, NoIface),
      Info(DEFAULT_VENDOR_ID, DEFAULT_PRODUCT_ID, <<"c">>, 0, NoIface),
      Info(DEFAULT_VENDOR_ID, DEFAULT_PRODUCT_ID, PathB, NoIface, 2),
      Info(DEFAULT_VENDOR_ID, DEFAULT_PRODUCT_ID, PathMi, NoIface, NoIface) }

\* A transport that never fails and enumerates every list of at most
\* MaxDevices of these entries.
LocateTransport ==
    [enumMsgs |-> {}, openMsgs |-> {}, sendMsgs |-> {}, getMsgs |-> {},
     devices |-> UNION {[1..n -> DeviceInfos] : n \in 0..MaxDevices},
     reports |-> {Report(<<ANGRY_MIAO_REPORT_ID, 0, 0, 57>>)},
     notReady |-> MaxConfigRetries, configs |-> "usual"]

\* A transport that never fails and reports every byte as the battery value.
ByteTransport ==
    [enumMsgs |-> {}, openMsgs |-> {}, sendMsgs |-> {}, getMsgs |-> {},
     devices |-> {<<Info(DEFAULT_VENDOR_ID, DEFAULT_PRODUCT_ID, PathA, 2, NoIface)>>},
     reports |-> {Report(<<ANGRY_MIAO_REPORT_ID, 0, 0, b>>) : b \in 0..255},
     notReady |-> MaxConfigRetries, configs |-> "usual"]

\* A transport that finds no device, under a config service that is not
\* ready up to MaxBackoff times in a row.
LoaderTransport ==
    [enumMsgs |-> {}, openMsgs |-> {}, sendMsgs |-> {}, getMsgs |-> {},
     devices |-> {<<>>}, reports |-> {NullReport}, notReady |-> MaxBackoff,
     configs |-> "usual"]

\* A host that delivers every raw config; no device is ever read.
ConfigTransport ==
    [enumMsgs |-> {}, openMsgs |-> {}, sendMsgs |-> {}, getMsgs |-> {},
     devices |-> {<<>>}, reports |-> {NullReport}, notReady |-> MaxConfigRetries,
     configs |-> "any"]

\* ------------------------------------------------------------- errors
\* An Error's message, kept in parts: which message it is, the attempt
\* number, the transport's text, the payload and the ids printed in it.
ErrorOf(kind, attempt, msg, payload, vid, pid) ==
    [kind |-> kind, attempt |-> attempt, msg |-> msg, payload |-> payload,
     vid |-> vid, pid |-> pid]

NoError == ErrorOf("null", 0, "", NullReport, 0, 0)
EnumerateError(msg) == ErrorOf("Unable to enumerate HID devices", 0, msg, NullReport, 0, 0)
NotFoundError(vid, pid) == ErrorOf("Device not found", 0, "", NullReport, vid, pid)
OpenError(msg) == ErrorOf("Unable to open HID device", 0, msg, NullReport, 0, 0)
InitError(attempt, msg) == ErrorOf("Failed to send init feature", attempt, msg, NullReport, 0, 0)
ReportError(data) == ErrorOf("Unexpected feature report", 0, "", data, 0, 0)
MissingError == ErrorOf("Battery value missing in report", 0, "", NullReport, 0, 0)
ReadError(attempt, msg) == ErrorOf("Failed to read feature report", attempt, msg, NullReport, 0, 0)
FallbackError == ErrorOf("Unable to read battery percentage", 0, "", NullReport, 0, 0)

\* What plugin.getConfig() rejects with: an Error whose message is kept as
\* the sequence of its parts, or a falsy value.
LoadError(message) == [falsy |-> FALSE, message |-> message]
NoLoadError == [falsy |-> TRUE, message |-> <<>>]

LoadErrors ==
    { LoadError(<<"Cannot read properties of null", " (reading '", "send", "')">>),
      LoadError(<<"Cannot read properties of null", " (reading '", "on", "')">>),
      LoadError(<<"Failed to ", "send", " request">>),
      NoLoadError }

\* isTransportNotReadyError that looks for the first phrase only.
isTransportNotReadyErrorLoose(error) ==
    IF error.falsy THEN FALSE
    ELSE Includes(error.message, <<"Cannot read properties of null">>)

isTransportNotReadyError(error) ==
    IF error.falsy THEN FALSE
    ELSE /\ Includes(error.message, <<"Cannot read properties of null">>)
         /\ Includes(error.message, <<"send">>)

\* The raw config a step was given, if it was: payload.config, or stored.
NotGiven == [given |-> FALSE, raw |-> NoRaw]
Given(raw) == [given |-> TRUE, raw |-> raw]

\* How the last step's call of plugin.getConfig() settled, if it did.
NoLoad == [state |-> "none", error |-> NoLoadError]
Loaded == [state |-> "loaded", error |-> NoLoadError]
LoadFailed(error) == [state |-> "failed", error |-> error]

\* ----------------------------------------------------------- statuses
NoValue == -1

UnknownStatus == [kind |-> "unknown", label |-> "waiting", value |-> NoValue, detail |-> NoError]
ValueStatus(result) == [kind |-> "value", label |-> "%", value |-> result, detail |-> NoError]
ErrorStatus(error) == [kind |-> "error", label |-> "error", value |-> NoValue, detail |-> error]

\* statusesEqual that compares two errors by their labels alone.
statusesEqualByLabel(a, b) ==
    IF a.kind # b.kind THEN FALSE
    ELSE IF a.kind = "value" /\ b.kind = "value" THEN a.value = b.value
    ELSE IF a.kind = "error" /\ b.kind = "error" THEN a.label = b.label
    ELSE TRUE

\* statusesEqual without the comparison of the kinds (lines 525-527).
statusesEqualNoKindCheck(a, b) ==
    IF a.kind = "value" /\ b.kind = "value" THEN a.value = b.value
    ELSE IF a.kind = "error" /\ b.kind = "error"
         THEN a.label = b.label /\ a.detail = b.detail
    ELSE TRUE

statusesEqual(a, b) ==
    IF a.kind # b.kind THEN FALSE
    ELSE IF a.kind = "value" /\ b.kind = "value" THEN a.value = b.value
    ELSE IF a.kind = "error" /\ b.kind = "error"
         THEN a.label = b.label /\ a.detail = b.detail
    ELSE TRUE

\* The title drawKey puts on a key: the value with "%", "ERR" or "--".
Title(text, value) == [text |-> text, value |-> value]

\* formatTitle that shows a failure as no reading.
formatTitleHidesError(status) ==
    IF status.kind = "value" THEN Title("%", status.value)
    ELSE Title("--", NoValue)

formatTitle(status) ==
    IF status.kind = "value" THEN Title("%", status.value)
    ELSE IF status.kind = "error" THEN Title("ERR", NoValue)
    ELSE Title("--", NoValue)

\* -------------------------------------------------------------- state
VARIABLES
    pluginConfig,          \* plugin.js:418
    batteryKeys,           \* plugin.js:420, the key ids <<serialNumber, uid>>
    pollTimer,             \* plugin.js:421, 0 (null) or the period it runs at
    pollIntervalMs,        \* plugin.js:422
    pollInFlight,          \* plugin.js:423
    latestStatus,          \* plugin.js:424
    configRetryTimer,      \* plugin.js:425, 0 (null) or the delay it waits
    configRetryAttempts,   \* plugin.js:426
    pendingForcedRefresh,  \* plugin.js:427
    booted,                \* the setTimeout(..., 0) of plugin.js:726 has fired
    configLoads,           \* calls of plugin.getConfig() not yet settled
    frames,                \* activations of pollAndUpdate and its read
    running,               \* the frame whose code is executing, 0 for none
    forcedSeen,            \* forced requests received by the poll in flight
    rendered,              \* the last step called renderAllKeys
    draws,                 \* the keys the last step drew (plugin.draw)
    titles,                \* the titles the last step drew on them
    handles,               \* device handles open in the transport
    loadOutcome,           \* how plugin.getConfig() settled in the last step
    rawConfig,             \* the raw config the last step built a config from
    dropped,               \* the last step was a timer tick that was dropped
    retryTimers,           \* the config retry timeouts the host holds
    cancelled,             \* the last step cleared a pending retry timeout
    hid                    \* what the HID transport can do in this run

vars == <<pluginConfig, batteryKeys, pollTimer, pollIntervalMs, pollInFlight,
          latestStatus, configRetryTimer, configRetryAttempts,
          pendingForcedRefresh, booted, configLoads, frames, running,
          forcedSeen, rendered, draws, titles, handles, loadOutcome, rawConfig,
          dropped, retryTimers, cancelled, hid>>

Frames == 1..MaxFrames
Serials == {"s1", "s2"}
BatteryUid == "k1"

\* The settled state of the promise readBatteryPercentage returned.
Pending == [state |-> "pending", value |-> NoValue, error |-> NoError]
Fulfilled(value) == [state |-> "fulfilled", value |-> value, error |-> NoError]
Rejected(error) == [state |-> "rejected", value |-> NoValue, error |-> error]

\* What the transport did in a frame's latest attempt.
NoFault == [step |-> "none", attempt |-> 0, msg |-> "", data |-> NullReport]
Fault(step, attempt, msg, data) ==
    [step |-> step, attempt |-> attempt, msg |-> msg, data |-> data]

FreeFrame ==
    [pc |-> "free", forceRedraw |-> FALSE, retryCount |-> 0, initDelay |-> 0,
     targetVid |-> 0, targetPid |-> 0, targetPath |-> <<>>, attempt |-> 0,
     lastError |-> NoError, device |-> "none", outcome |-> Pending,
     tries |-> 0, opens |-> 0, fails |-> 0, enumerations |-> 0,
     fault |-> NoFault, listed |-> <<>>, paths |-> {}, ops |-> <<>>]

\* pollAndUpdate's frame as readBatteryPercentage has read its config:
\* tries, opens, fails, enumerations, fault, listed (what HID.devices()
\* returned), paths (the paths given to new HID.HID) and ops (the calls
\* made on the transport in the latest attempt) observe the read,
\* the rest are the locals of the two functions.
NewFrame(forceRedraw, config) ==
    [FreeFrame EXCEPT
        !.pc = "resolve",
        !.forceRedraw = forceRedraw,
        !.retryCount = Max(1, IF config.retryCount = 0 THEN 1 ELSE config.retryCount),
        !.initDelay = Max(0, config.initDelayMs),
        !.targetVid = IF ParseConfigInt(config.vid) = Undefined
                      THEN DEFAULT_VENDOR_ID ELSE ParseConfigInt(config.vid),
        !.targetPid = IF ParseConfigInt(config.pid) = Undefined
                      THEN DEFAULT_PRODUCT_ID ELSE ParseConfigInt(config.pid),
        !.targetPath = Trim(config.hidPath)]

\* Module load (lines 418-427): nothing registered, no timer, no read.
Idle ==
    /\ batteryKeys = {}
    /\ pollTimer = 0
    /\ pollInFlight = FALSE
    /\ latestStatus = UnknownStatus
    /\ configRetryTimer = 0
    /\ configRetryAttempts = 0
    /\ pendingForcedRefresh = FALSE
    /\ booted = FALSE
    /\ configLoads = 0
    /\ frames = [f \in Frames |-> FreeFrame]
    /\ running = 0
    /\ forcedSeen = 0
    /\ rendered = FALSE
    /\ draws = {}
    /\ titles = {}
    /\ handles = 0
    /\ loadOutcome = NoLoad
    /\ rawConfig = NotGiven
    /\ dropped = FALSE
    /\ retryTimers = 0
    /\ cancelled = FALSE

Init ==
    /\ pluginConfig = buildConfig(NoRaw)
    /\ pollIntervalMs = pluginConfig.pollIntervalSeconds * 1000
    /\ Idle
    /\ hid = SmallTransport

\* A handler that forgets the retry timer without clearTimeout.
clearTimeoutForgotten(timer, timers) == timers

\* clearTimeout(timer) of a handle that is null or pending: timers is the
\* number of timeouts the host holds.
clearTimeout(timer, timers) == IF timer # 0 THEN timers - 1 ELSE timers

\* ------------------------------------------------------ the scheduler
\* No poll is started: the four variables a call of pollAndUpdate decides.
NoPoll(inFlight, pending, frs) ==
    /\ pollInFlight' = inFlight
    /\ pendingForcedRefresh' = pending
    /\ frames' = frs
    /\ running' = 0

LowestFree(frs) ==
    CHOOSE f \in Frames :
        frs[f].pc = "free" /\ \A g \in Frames : frs[g].pc = "free" => f <= g

\* pollAndUpdate without the test of pollInFlight (lines 574-579).
pollAndUpdateUnguarded(forceRedraw, force, inFlight, pending, keys, config, frs) ==
    IF keys = {}
    THEN NoPoll(inFlight, pending, frs)
    ELSE /\ \E f \in Frames : frs[f].pc = "free"
         /\ pollInFlight' = TRUE
         /\ pendingForcedRefresh' = pending
         /\ frames' = [frs EXCEPT ![LowestFree(frs)] = NewFrame(forceRedraw, config)]
         /\ running' = LowestFree(frs)

\* pollAndUpdate that drops a forced request made while a poll is in
\* flight, as it drops a tick (line 576 missing).
pollAndUpdateForgetful(forceRedraw, force, inFlight, pending, keys, config, frs) ==
    IF inFlight
    THEN NoPoll(inFlight, pending, frs)
    ELSE IF keys = {}
    THEN NoPoll(inFlight, pending, frs)
    ELSE /\ \E f \in Frames : frs[f].pc = "free"
         /\ pollInFlight' = TRUE
         /\ pendingForcedRefresh' = pending
         /\ frames' = [frs EXCEPT ![LowestFree(frs)] = NewFrame(forceRedraw, config)]
         /\ running' = LowestFree(frs)

\* pollAndUpdate whose poll forgets that a redraw was demanded.
pollAndUpdateNoRedraw(forceRedraw, force, inFlight, pending, keys, config, frs) ==
    IF inFlight
    THEN NoPoll(inFlight, IF force THEN TRUE ELSE pending, frs)
    ELSE IF keys = {}
    THEN NoPoll(inFlight, pending, frs)
    ELSE /\ \E f \in Frames : frs[f].pc = "free"
         /\ pollInFlight' = TRUE
         /\ pendingForcedRefresh' = pending
         /\ frames' = [frs EXCEPT ![LowestFree(frs)] = NewFrame(FALSE, config)]
         /\ running' = LowestFree(frs)

\* pollAndUpdate without the test of batteryKeys.size (lines 580-582).
pollAndUpdateNoKeyCheck(forceRedraw, force, inFlight, pending, keys, config, frs) ==
    IF inFlight
    THEN NoPoll(inFlight, IF force THEN TRUE ELSE pending, frs)
    ELSE /\ \E f \in Frames : frs[f].pc = "free"
         /\ pollInFlight' = TRUE
         /\ pendingForcedRefresh' = pending
         /\ frames' = [frs EXCEPT ![LowestFree(frs)] = NewFrame(forceRedraw, config)]
         /\ running' = LowestFree(frs)

\* pollAndUpdate whose finally block does not clear pendingForcedRefresh
\* (line 610 missing).
pollAndUpdateKeepsPending(forceRedraw, force, inFlight, pending, keys, config, frs) ==
    IF inFlight
    THEN NoPoll(inFlight, IF force THEN TRUE ELSE pending, frs)
    ELSE IF keys = {}
    THEN NoPoll(inFlight, pendingForcedRefresh, frs)
    ELSE /\ \E f \in Frames : frs[f].pc = "free"
         /\ pollInFlight' = TRUE
         /\ pendingForcedRefresh' = pendingForcedRefresh
         /\ frames' = [frs EXCEPT ![LowestFree(frs)] = NewFrame(forceRedraw, config)]
         /\ running' = LowestFree(frs)

\* pollAndUpdate that remembers every call made while a poll is in flight,
\* forced or not.
pollAndUpdateQueuesTicks(forceRedraw, force, inFlight, pending, keys, config, frs) ==
    IF inFlight
    THEN NoPoll(inFlight, TRUE, frs)
    ELSE IF keys = {}
    THEN NoPoll(inFlight, pending, frs)
    ELSE /\ \E f \in Frames : frs[f].pc = "free"
         /\ pollInFlight' = TRUE
         /\ pendingForcedRefresh' = pending
         /\ frames' = [frs EXCEPT ![LowestFree(frs)] = NewFrame(forceRedraw, config)]
         /\ running' = LowestFree(frs)

\* pollAndUpdate(forceRedraw, force) up to its await, called with
\* pollInFlight = inFlight, pendingForcedRefresh = pending, batteryKeys =
\* keys, pluginConfig = config and the frames frs.
pollAndUpdate(forceRedraw, force, inFlight, pending, keys, config, frs) ==
    IF inFlight
    THEN NoPoll(inFlight, IF force THEN TRUE ELSE pending, frs)
    ELSE IF keys = {}
    THEN NoPoll(inFlight, pending, frs)
    ELSE /\ \E f \in Frames : frs[f].pc = "free"
         /\ pollInFlight' = TRUE
         /\ pendingForcedRefresh' = pending
         /\ frames' = [frs EXCEPT ![LowestFree(frs)] = NewFrame(forceRedraw, config)]
         /\ running' = LowestFree(frs)

\* stopPolling and ensurePolling, called with the values the handler has
\* assigned so far.
ensurePolling(keys, config, intervalMs, timer, inFlight, pending, frs) ==
    IF keys = {}
    THEN /\ pollTimer' = 0
         /\ pollIntervalMs' = intervalMs
         /\ NoPoll(inFlight, pending, frs)
    ELSE LET desiredInterval == getPollIntervalMs(config)
         IN  IF timer # 0 /\ intervalMs = desiredInterval
             THEN /\ pollTimer' = timer
                  /\ pollIntervalMs' = intervalMs
                  /\ NoPoll(inFlight, pending, frs)
             ELSE /\ pollIntervalMs' = desiredInterval
                  /\ pollTimer' = desiredInterval
                  /\ pollAndUpdate(TRUE, FALSE, inFlight, pending, keys, config, frs)

\* The interval timer's callback.
Tick ==
    /\ running = 0
    /\ UNCHANGED <<hid, handles>>
    /\ loadOutcome' = NoLoad
    /\ dropped' = pollInFlight
    /\ UNCHANGED <<retryTimers, cancelled>>
    /\ rawConfig' = NotGiven
    /\ pollTimer # 0
    /\ pollAndUpdate(FALSE, FALSE, pollInFlight, pendingForcedRefresh,
                     batteryKeys, pluginConfig, frames)
    /\ rendered' = FALSE
    /\ draws' = {}
    /\ titles' = {}
    /\ UNCHANGED <<pluginConfig, batteryKeys, pollTimer, pollIntervalMs,
                   latestStatus, configRetryTimer, configRetryAttempts,
                   booted, configLoads, forcedSeen>>

\* plugin.on("plugin.config.updated"): raw is payload.config, or the
\* payload itself.
ConfigUpdated ==
    /\ running = 0
    /\ UNCHANGED <<hid, handles>>
    /\ loadOutcome' = NoLoad
    /\ dropped' = FALSE
    /\ \E raw \in hostConfigs(hid.configs) :
        /\ rawConfig' = Given(raw)
        /\ pluginConfig' = buildConfig(raw)
        /\ configRetryAttempts' = 0
        /\ configRetryTimer' = 0
        /\ retryTimers' = clearTimeout(configRetryTimer, retryTimers)
        /\ cancelled' = (configRetryTimer # 0)
        /\ ensurePolling(batteryKeys, pluginConfig',
                         getPollIntervalMs(pluginConfig'), pollTimer,
                         pollInFlight, pendingForcedRefresh, frames)
    /\ rendered' = FALSE
    /\ draws' = {}
    /\ titles' = {}
    /\ UNCHANGED <<batteryKeys, latestStatus, booted, configLoads, forcedSeen>>

\* plugin.on("plugin.alive"): hasKey says whether payload.keys holds a key
\* with the battery cid.
Alive ==
    /\ running = 0
    /\ UNCHANGED <<hid, handles>>
    /\ loadOutcome' = NoLoad
    /\ dropped' = FALSE
    /\ UNCHANGED <<retryTimers, cancelled>>
    /\ rawConfig' = NotGiven
    /\ \E serialNumber \in Serials, hasKey \in BOOLEAN :
        /\ batteryKeys' = IF hasKey
                          THEN batteryKeys \cup {<<serialNumber, BatteryUid>>}
                          ELSE batteryKeys
        /\ draws' = IF hasKey
                    THEN {<<serialNumber, BatteryUid>>}
                    ELSE {}
        /\ titles' = IF hasKey THEN {formatTitle(latestStatus)} ELSE {}
        /\ ensurePolling(batteryKeys', pluginConfig, pollIntervalMs, pollTimer,
                         pollInFlight, pendingForcedRefresh, frames)
    /\ rendered' = FALSE
    /\ UNCHANGED <<pluginConfig, latestStatus, configRetryTimer,
                   configRetryAttempts, booted, configLoads, forcedSeen>>

\* plugin.on("plugin.data") for a key with the battery cid: a forced
\* refresh request.
Data ==
    /\ running = 0
    /\ UNCHANGED <<hid, handles>>
    /\ loadOutcome' = NoLoad
    /\ dropped' = FALSE
    /\ UNCHANGED <<retryTimers, cancelled>>
    /\ rawConfig' = NotGiven
    /\ forcedSeen < MaxForced
    /\ \E serialNumber \in Serials :
        /\ batteryKeys' = batteryKeys \cup {<<serialNumber, BatteryUid>>}
        /\ pollAndUpdate(TRUE, TRUE, pollInFlight, pendingForcedRefresh,
                         batteryKeys', pluginConfig, frames)
    /\ forcedSeen' = IF pollInFlight THEN forcedSeen + 1 ELSE forcedSeen
    /\ rendered' = FALSE
    /\ draws' = {}
    /\ titles' = {}
    /\ UNCHANGED <<pluginConfig, pollTimer, pollIntervalMs, latestStatus,
                   configRetryTimer, configRetryAttempts, booted, configLoads>>

\* plugin.on("plugin.data") for another key, or without one: no effect.
DataIgnored ==
    /\ running = 0
    /\ UNCHANGED <<hid, handles>>
    /\ loadOutcome' = NoLoad
    /\ dropped' = FALSE
    /\ UNCHANGED <<retryTimers, cancelled>>
    /\ rawConfig' = NotGiven
    /\ rendered' = FALSE
    /\ draws' = {}
    /\ titles' = {}
    /\ UNCHANGED <<pluginConfig, batteryKeys, pollTimer, pollIntervalMs,
                   pollInFlight, latestStatus, configRetryTimer,
                   configRetryAttempts, pendingForcedRefresh, booted,
                   configLoads, frames, running, forcedSeen>>

\* plugin.destroy that forgets the cached status with the last key.
DestroyForgetsStatus ==
    /\ running = 0
    /\ UNCHANGED <<hid, handles>>
    /\ loadOutcome' = NoLoad
    /\ dropped' = FALSE
    /\ UNCHANGED <<retryTimers, cancelled>>
    /\ rawConfig' = NotGiven
    /\ \E serialNumber \in Serials :
        /\ batteryKeys' = {k \in batteryKeys : k[1] # serialNumber}
        /\ pollTimer' = IF batteryKeys' = {} THEN 0 ELSE pollTimer
        /\ latestStatus' = IF batteryKeys' = {} THEN UnknownStatus ELSE latestStatus
    /\ rendered' = FALSE
    /\ draws' = {}
    /\ titles' = {}
    /\ UNCHANGED <<pluginConfig, pollIntervalMs, pollInFlight,
                   configRetryTimer, configRetryAttempts, pendingForcedRefresh,
                   booted, configLoads, frames, running, forcedSeen>>

\* plugin.destroy that abandons the read in flight with the last key.
DestroyCancelsRead ==
    /\ running = 0
    /\ UNCHANGED <<hid, handles>>
    /\ loadOutcome' = NoLoad
    /\ dropped' = FALSE
    /\ UNCHANGED <<retryTimers, cancelled>>
    /\ rawConfig' = NotGiven
    /\ \E serialNumber \in Serials :
        /\ batteryKeys' = {k \in batteryKeys : k[1] # serialNumber}
        /\ pollTimer' = IF batteryKeys' = {} THEN 0 ELSE pollTimer
        /\ frames' = IF batteryKeys' = {}
                     THEN [f \in Frames |-> FreeFrame] ELSE frames
        /\ pollInFlight' = IF batteryKeys' = {} THEN FALSE ELSE pollInFlight
    /\ rendered' = FALSE
    /\ draws' = {}
    /\ titles' = {}
    /\ UNCHANGED <<pluginConfig, pollIntervalMs, latestStatus,
                   configRetryTimer, configRetryAttempts, pendingForcedRefresh,
                   booted, configLoads, running, forcedSeen>>

\* plugin.destroy without its call of stopPolling (lines 719-721).
DestroyKeepsTimer ==
    /\ running = 0
    /\ UNCHANGED <<hid, handles>>
    /\ loadOutcome' = NoLoad
    /\ dropped' = FALSE
    /\ UNCHANGED <<retryTimers, cancelled>>
    /\ rawConfig' = NotGiven
    /\ \E serialNumber \in Serials :
        batteryKeys' = {k \in batteryKeys : k[1] # serialNumber}
    /\ rendered' = FALSE
    /\ draws' = {}
    /\ titles' = {}
    /\ UNCHANGED <<pluginConfig, pollTimer, pollIntervalMs, pollInFlight,
                   latestStatus, configRetryTimer, configRetryAttempts,
                   pendingForcedRefresh, booted, configLoads, frames, running,
                   forcedSeen>>

\* plugin.on("plugin.destroy") with a serial number.
Destroy ==
    /\ running = 0
    /\ UNCHANGED <<hid, handles>>
    /\ loadOutcome' = NoLoad
    /\ dropped' = FALSE
    /\ UNCHANGED <<retryTimers, cancelled>>
    /\ rawConfig' = NotGiven
    /\ \E serialNumber \in Serials :
        /\ batteryKeys' = {k \in batteryKeys : k[1] # serialNumber}
        /\ pollTimer' = IF batteryKeys' = {} THEN 0 ELSE pollTimer
    /\ rendered' = FALSE
    /\ draws' = {}
    /\ titles' = {}
    /\ UNCHANGED <<pluginConfig, pollIntervalMs, pollInFlight, latestStatus,
                   configRetryTimer, configRetryAttempts, pendingForcedRefresh,
                   booted, configLoads, frames, running, forcedSeen>>

\* -------------------------------------------------- the config loader
RECURSIVE Pow2(_)
Pow2(n) == IF n = 0 THEN 1 ELSE 2 * Pow2(n - 1)

\* scheduleConfigRetry without the cap of the delay.
configRetryDelayUncapped(attempts) == CONFIG_RETRY_BASE_DELAY_MS * Pow2(attempts)

\* The delay scheduleConfigRetry waits after `attempts` retries.
configRetryDelay(attempts) ==
    Min(CONFIG_RETRY_BASE_DELAY_MS * Pow2(attempts), CONFIG_RETRY_MAX_DELAY_MS)

\* loadInitialConfig up to its await: the startup timer, or a retry timer
\* the host holds.
LoadStart ==
    /\ running = 0
    /\ UNCHANGED <<hid, handles>>
    /\ loadOutcome' = NoLoad
    /\ dropped' = FALSE
    /\ rawConfig' = NotGiven
    /\ \/ /\ ~booted
          /\ booted' = TRUE
          /\ UNCHANGED <<configRetryTimer, retryTimers>>
       \/ /\ retryTimers > 0
          /\ retryTimers' = retryTimers - 1
          /\ configRetryTimer' = 0
          /\ UNCHANGED booted
    /\ cancelled' = FALSE
    /\ configLoads' = configLoads + 1
    /\ rendered' = FALSE
    /\ draws' = {}
    /\ titles' = {}
    /\ UNCHANGED <<pluginConfig, batteryKeys, pollTimer, pollIntervalMs,
                   pollInFlight, latestStatus, configRetryAttempts,
                   pendingForcedRefresh, frames, running, forcedSeen>>

\* loadInitialConfig after plugin.getConfig() resolved with `stored`.
LoadSucceeds ==
    /\ running = 0
    /\ UNCHANGED <<hid, handles>>
    /\ loadOutcome' = Loaded
    /\ dropped' = FALSE
    /\ configLoads > 0
    /\ configLoads' = configLoads - 1
    /\ \E stored \in hostConfigs(hid.configs) :
        /\ rawConfig' = Given(stored)
        /\ pluginConfig' = buildConfig(stored)
        /\ configRetryAttempts' = 0
        /\ configRetryTimer' = 0
        /\ retryTimers' = clearTimeout(configRetryTimer, retryTimers)
        /\ cancelled' = (configRetryTimer # 0)
        /\ ensurePolling(batteryKeys, pluginConfig',
                         getPollIntervalMs(pluginConfig'), pollTimer,
                         pollInFlight, pendingForcedRefresh, frames)
    /\ rendered' = FALSE
    /\ draws' = {}
    /\ titles' = {}
    /\ UNCHANGED <<batteryKeys, latestStatus, booted, forcedSeen>>

\* loadInitialConfig after plugin.getConfig() failed with error.
LoadFails ==
    /\ running = 0
    /\ UNCHANGED <<hid, handles>>
    /\ configLoads > 0
    /\ configLoads' = configLoads - 1
    /\ \E error \in LoadErrors :
        /\ isTransportNotReadyError(error) => configRetryAttempts < hid.notReady
        /\ loadOutcome' = LoadFailed(error)
        /\ dropped' = FALSE
        /\ rawConfig' = NotGiven
        /\ IF isTransportNotReadyError(error) /\ configRetryTimer = 0
           THEN /\ configRetryTimer' = configRetryDelay(configRetryAttempts)
                /\ configRetryAttempts' = configRetryAttempts + 1
                /\ retryTimers' = retryTimers + 1
           ELSE UNCHANGED <<configRetryTimer, configRetryAttempts, retryTimers>>
    /\ cancelled' = FALSE
    /\ pluginConfig' = buildConfig(NoRaw)
    /\ ensurePolling(batteryKeys, pluginConfig',
                     getPollIntervalMs(pluginConfig'), pollTimer,
                     pollInFlight, pendingForcedRefresh, frames)
    /\ rendered' = FALSE
    /\ draws' = {}
    /\ titles' = {}
    /\ UNCHANGED <<batteryKeys, latestStatus, booted, forcedSeen>>

\* n + 1, the next value of a counter of the read; in a read whose
\* retryCount is Infinity the counters are followed up to MaxCounted.
counted(n, retryCount) ==
    IF retryCount = Infinity /\ n >= MaxCounted THEN n ELSE n + 1

\* --------------------------------------------------------- the reader
\* A step of frame f's read: nothing of the plugin's state changes but the
\* frame and who runs.
ReaderFrame(f) ==
    /\ frames[f].pc # "free"
    /\ loadOutcome' = NoLoad
    /\ dropped' = FALSE
    /\ UNCHANGED <<retryTimers, cancelled>>
    /\ rawConfig' = NotGiven
    /\ rendered' = FALSE
    /\ draws' = {}
    /\ titles' = {}
    /\ UNCHANGED <<pluginConfig, batteryKeys, pollTimer, pollIntervalMs,
                   pollInFlight, latestStatus, configRetryTimer,
                   configRetryAttempts, pendingForcedRefresh, booted,
                   configLoads, forcedSeen, hid>>

\* The handles a close releases: the handle was open and is closed now.
released(before, after) == IF before = "open" /\ after = "closed" THEN 1 ELSE 0

\* wait(ms): who runs while the promise is pending. A delay of 0 resolves
\* in a microtask, before any event; a longer one yields to the event loop.
wait(ms, f) == IF ms <= 0 THEN f ELSE 0

\* safeClose that closes nothing.
safeCloseNoop(device) == device

\* safeClose on a handle: none, open or closed. Errors of close are ignored.
safeClose(device) == IF device = "none" THEN device ELSE "closed"

\* lastError that keeps the first failure of the read.
recordErrorFirst(lastError, error) == IF lastError = NoError THEN error ELSE lastError

\* lastError after an attempt failed with error.
recordError(lastError, error) == error

\* Line 138 without its test: the locator is asked whatever the config says.
lacksPathAlways(targetPath) == TRUE

\* The test of line 138 on the trimmed hidPath.
lacksPath(targetPath) == targetPath = <<>>

\* Line 140 without its test: the read goes on with no path.
notResolvedNever(resolved) == FALSE

\* The test of line 140 on what findDevicePath returned.
notResolved(resolved) == resolved = <<>>

\* The loop test off by one.
loopContinuesShort(attempt, retryCount) == attempt < retryCount

\* The loop test of line 151.
loopContinues(attempt, retryCount) == attempt <= retryCount

\* Line 179 without the test of the report id.
isUnexpectedNoId(data) == ~data.present \/ Len(data.bytes) < 4

\* The test of line 179 on what getFeatureReport returned.
isUnexpected(data) ==
    \/ ~data.present
    \/ Len(data.bytes) < 4
    \/ data.bytes[1] # ANGRY_MIAO_REPORT_ID

\* Line 191 without the clamp.
clampBatteryNone(battery) == battery

\* The value returned at line 191 for the byte at offset 3.
clampBattery(battery) == Min(100, Max(0, battery))

\* Lines 137-151: the target path, from the config or from the locator.
Resolve(f) ==
    /\ running = f
    /\ frames[f].pc = "resolve"
    /\ ReaderFrame(f)
    /\ UNCHANGED <<running, handles>>
    /\ LET fr == frames[f]
       IN  IF ~lacksPath(fr.targetPath)
           THEN frames' = [frames EXCEPT ![f].pc = "loop", ![f].attempt = 1]
           ELSE \/ \E msg \in hid.enumMsgs :
                     frames' = [frames EXCEPT
                         ![f].pc = "done",
                         ![f].enumerations = fr.enumerations + 1,
                         ![f].outcome = Rejected(EnumerateError(msg))]
                \/ \E devices \in hid.devices :
                     LET resolved == findDevicePath(devices, fr.targetVid, fr.targetPid)
                     IN  IF notResolved(resolved)
                         THEN frames' = [frames EXCEPT
                                  ![f].pc = "done",
                                  ![f].enumerations = fr.enumerations + 1,
                                  ![f].listed = devices,
                                  ![f].outcome = Rejected(
                                      NotFoundError(fr.targetVid, fr.targetPid))]
                         ELSE frames' = [frames EXCEPT
                                  ![f].pc = "loop",
                                  ![f].enumerations = fr.enumerations + 1,
                                  ![f].listed = devices,
                                  ![f].targetPath = resolved,
                                  ![f].attempt = 1]

\* Lines 151-160: the loop test and new HID.HID(targetPath).
Open(f) ==
    /\ running = f
    /\ frames[f].pc = "loop"
    /\ loopContinues(frames[f].attempt, frames[f].retryCount)
    /\ ReaderFrame(f)
    /\ UNCHANGED running
    /\ LET fr == frames[f]
       IN  \/ \E msg \in hid.openMsgs :
                frames' = [frames EXCEPT
                    ![f].lastError = recordError(fr.lastError, OpenError(msg)),
                    ![f].attempt = counted(fr.attempt, fr.retryCount),
                    ![f].device = "none",
                    ![f].tries = counted(fr.tries, fr.retryCount),
                    ![f].opens = counted(fr.opens, fr.retryCount),
                    ![f].fails = counted(fr.fails, fr.retryCount),
                    ![f].paths = fr.paths \cup {fr.targetPath},
                    ![f].ops = <<"open!">>,
                    ![f].fault = Fault("open", fr.attempt, msg, NullReport)]
           \/ frames' = [frames EXCEPT
                    ![f].pc = "send",
                    ![f].device = "open",
                    ![f].tries = counted(fr.tries, fr.retryCount),
                    ![f].opens = counted(fr.opens, fr.retryCount),
                    ![f].paths = fr.paths \cup {fr.targetPath},
                    ![f].ops = <<"open">>,
                    ![f].fault = NoFault]
    /\ handles' = handles + (IF frames'[f].device = "open" THEN 1 ELSE 0)

\* Line 203: the loop has ended without a return.
Exhausted(f) ==
    /\ running = f
    /\ frames[f].pc = "loop"
    /\ ~loopContinues(frames[f].attempt, frames[f].retryCount)
    /\ ReaderFrame(f)
    /\ UNCHANGED <<running, handles>>
    /\ frames' = [frames EXCEPT
           ![f].pc = "done",
           ![f].outcome = Rejected(IF frames[f].lastError # NoError
                                   THEN frames[f].lastError ELSE FallbackError)]

\* A read that asks for the report right after the activation write.
pcAfterSendNoSettle(failed) == IF failed THEN "retryWait" ELSE "get"

\* Where the read waits after sendFeatureReport: at line 171 when it threw,
\* at line 175 when it did not.
pcAfterSend(failed) == IF failed THEN "retryWait" ELSE "settle"

\* Lines 162-175: sendFeatureReport, then the await of wait(initDelay).
Send(f) ==
    /\ running = f
    /\ frames[f].pc = "send"
    /\ ReaderFrame(f)
    /\ running' = wait(frames[f].initDelay, f)
    /\ LET fr == frames[f]
       IN  \/ \E msg \in hid.sendMsgs :
                frames' = [frames EXCEPT
                    ![f].pc = pcAfterSend(TRUE),
                    ![f].lastError = recordError(fr.lastError, InitError(fr.attempt, msg)),
                    ![f].device = safeClose(fr.device),
                    ![f].ops = fr.ops \o <<"send!", "close">>,
                    ![f].fails = counted(fr.fails, fr.retryCount),
                    ![f].fault = Fault("send", fr.attempt, msg, NullReport)]
           \/ frames' = [frames EXCEPT ![f].pc = pcAfterSend(FALSE),
                                       ![f].ops = fr.ops \o <<"send">>]
    /\ handles' = handles - released(frames[f].device, frames'[f].device)

\* Lines 171-172: the wait after a failed init write is over; next attempt.
RetryWaitOver(f) ==
    /\ frames[f].pc = "retryWait"
    /\ running = wait(frames[f].initDelay, f)
    /\ ReaderFrame(f)
    /\ running' = f
    /\ UNCHANGED handles
    /\ frames' = [frames EXCEPT ![f].pc = "loop",
                                ![f].attempt = counted(frames[f].attempt, frames[f].retryCount)]

\* Line 175: the settle delay is over.
SettleOver(f) ==
    /\ frames[f].pc = "settle"
    /\ running = wait(frames[f].initDelay, f)
    /\ ReaderFrame(f)
    /\ running' = f
    /\ UNCHANGED handles
    /\ frames' = [frames EXCEPT ![f].pc = "get",
                                ![f].ops = frames[f].ops \o <<"settle">>]

\* Lines 177-200: getFeatureReport, the checks of its result, the return.
Get(f) ==
    /\ running = f
    /\ frames[f].pc = "get"
    /\ ReaderFrame(f)
    /\ UNCHANGED running
    /\ LET fr == frames[f]
       IN  \/ \E msg \in hid.getMsgs :
                frames' = [frames EXCEPT
                    ![f].pc = "loop",
                    ![f].lastError = recordError(fr.lastError, ReadError(fr.attempt, msg)),
                    ![f].device = safeClose(fr.device),
                    ![f].ops = fr.ops \o <<"get!", "close">>,
                    ![f].attempt = counted(fr.attempt, fr.retryCount),
                    ![f].fails = counted(fr.fails, fr.retryCount),
                    ![f].fault = Fault("get", fr.attempt, msg, NullReport)]
           \/ \E data \in hid.reports :
                IF isUnexpected(data)
                THEN frames' = [frames EXCEPT
                         ![f].pc = "loop",
                         ![f].lastError = recordError(fr.lastError, ReportError(data)),
                         ![f].device = safeClose(safeClose(fr.device)),
                         ![f].ops = fr.ops \o <<"get", "close", "close">>,
                         ![f].attempt = counted(fr.attempt, fr.retryCount),
                         ![f].fails = counted(fr.fails, fr.retryCount),
                         ![f].fault = Fault("report", fr.attempt, "", data)]
                ELSE LET battery == data.bytes[4]
                     IN  IF battery \notin Int
                         THEN frames' = [frames EXCEPT
                                  ![f].pc = "loop",
                                  ![f].lastError = recordError(fr.lastError, MissingError),
                                  ![f].device = safeClose(safeClose(fr.device)),
                         ![f].ops = fr.ops \o <<"get", "close", "close">>,
                                  ![f].attempt = counted(fr.attempt, fr.retryCount),
                                  ![f].fails = counted(fr.fails, fr.retryCount),
                                  ![f].fault = Fault("report", fr.attempt, "", data)]
                         ELSE frames' = [frames EXCEPT
                                  ![f].pc = "done",
                                  ![f].device = safeClose(safeClose(fr.device)),
                         ![f].ops = fr.ops \o <<"get", "close", "close">>,
                                  ![f].outcome = Fulfilled(clampBattery(battery)),
                                  ![f].fault = Fault("report", fr.attempt, "", data)]
    /\ handles' = handles - released(frames[f].device, frames'[f].device)

\* ------------------------------------------------- the poll completes
\* Lines 587 and 598 without `|| forceRedraw`.
shouldRenderChangedOnly(status, latest, forceRedraw) == ~statusesEqual(status, latest)

\* The test of lines 587 and 598.
shouldRender(status, latest, forceRedraw) ==
    ~statusesEqual(status, latest) \/ forceRedraw

\* pollAndUpdate that takes a failed read for no reading yet.
statusOfUnknownOnFailure(outcome) ==
    IF outcome.state = "fulfilled" THEN ValueStatus(outcome.value)
    ELSE UnknownStatus

\* pollAndUpdate that reports every failure by the same text.
statusOfNoDetail(outcome) ==
    IF outcome.state = "fulfilled" THEN ValueStatus(outcome.value)
    ELSE ErrorStatus(FallbackError)

\* The status pollAndUpdate builds from the settled read (lines 586, 593).
statusOf(outcome) ==
    IF outcome.state = "fulfilled" THEN ValueStatus(outcome.value)
    ELSE ErrorStatus(outcome.error)

\* pollAndUpdate after its await (lines 586-613), with the call of
\* pollAndUpdate its finally block makes.
Complete(f) ==
    /\ running = f
    /\ frames[f].pc = "done"
    /\ LET status == statusOf(frames[f].outcome)
           commit == shouldRender(status, latestStatus, frames[f].forceRedraw)
           freed == [frames EXCEPT ![f] = FreeFrame]
       IN  /\ latestStatus' = IF commit THEN status ELSE latestStatus
           /\ rendered' = commit
           /\ draws' = IF commit THEN batteryKeys ELSE {}
           /\ titles' = IF commit /\ batteryKeys # {}
                        THEN {formatTitle(latestStatus')}
                        ELSE {}
           /\ IF pendingForcedRefresh
              THEN pollAndUpdate(TRUE, FALSE, FALSE, FALSE, batteryKeys,
                                 pluginConfig, freed)
              ELSE NoPoll(FALSE, FALSE, freed)
    /\ forcedSeen' = 0
    /\ loadOutcome' = NoLoad
    /\ dropped' = FALSE
    /\ UNCHANGED <<retryTimers, cancelled>>
    /\ rawConfig' = NotGiven
    /\ UNCHANGED <<pluginConfig, batteryKeys, pollTimer, pollIntervalMs,
                   configRetryTimer, configRetryAttempts, booted, configLoads,
                   hid, handles>>

ResolveStep == \E f \in Frames : Resolve(f)
OpenStep == \E f \in Frames : Open(f)
ExhaustedStep == \E f \in Frames : Exhausted(f)
SendStep == \E f \in Frames : Send(f)
RetryWaitOverStep == \E f \in Frames : RetryWaitOver(f)
SettleOverStep == \E f \in Frames : SettleOver(f)
GetStep == \E f \in Frames : Get(f)
CompleteStep == \E f \in Frames : Complete(f)

Next ==
    \/ Tick
    \/ ConfigUpdated
    \/ Alive
    \/ Data
    \/ DataIgnored
    \/ Destroy
    \/ LoadStart
    \/ LoadSucceeds
    \/ LoadFails
    \/ ResolveStep
    \/ OpenStep
    \/ ExhaustedStep
    \/ SendStep
    \/ RetryWaitOverStep
    \/ SettleOverStep
    \/ GetStep
    \/ CompleteStep

Spec == Init /\ [][Next]_vars

\* The reader under every fault of the transport: the plugin as a config
\* push has left it (no key registered yet), polled by forced requests.
\* The configs of a read: those above, and a pinned path with the vendor's
\* own ids set as well, two attempts and no settle delay.
ReadConfigs ==
    RawConfigs \cup
    { RawObject(RawText(PinnedPath), RawNumber(DEFAULT_VENDOR_ID),
                RawText(<<"5", "0", "0", "7", "h">>), RawUndefined,
                RawNumber(0), RawNumber(2)) }

InitRead ==
    /\ \E raw \in ReadConfigs : pluginConfig = buildConfig(raw)
    /\ pollIntervalMs = getPollIntervalMs(pluginConfig)
    /\ Idle
    /\ hid = FullTransport

NextRead ==
    \/ Data
    \/ ResolveStep
    \/ OpenStep
    \/ ExhaustedStep
    \/ SendStep
    \/ RetryWaitOverStep
    \/ SettleOverStep
    \/ GetStep
    \/ CompleteStep

ReadSpec == InitRead /\ [][NextRead]_vars

\* The reader on every battery byte, the transport never failing.
InitByte ==
    /\ pluginConfig = buildConfig(NoRaw)
    /\ pollIntervalMs = pluginConfig.pollIntervalSeconds * 1000
    /\ Idle
    /\ hid = ByteTransport

NextByte ==
    \/ Data
    \/ ResolveStep
    \/ OpenStep
    \/ SendStep
    \/ SettleOverStep
    \/ GetStep
    \/ CompleteStep

ByteSpec == InitByte /\ [][NextByte]_vars

\* The locator on every enumeration, the transport never failing.
InitLocate ==
    /\ pluginConfig = buildConfig(NoRaw)
    /\ pollIntervalMs = pluginConfig.pollIntervalSeconds * 1000
    /\ Idle
    /\ hid = LocateTransport

NextLocate ==
    \/ Data
    \/ ResolveStep
    \/ OpenStep
    \/ SendStep
    \/ SettleOverStep
    \/ GetStep
    \/ CompleteStep

LocateSpec == InitLocate /\ [][NextLocate]_vars

\* The config loader under a config service that stays not ready, the
\* scheduler polling a device that is never found.
InitLoad ==
    /\ pluginConfig = buildConfig(NoRaw)
    /\ pollIntervalMs = pluginConfig.pollIntervalSeconds * 1000
    /\ Idle
    /\ hid = LoaderTransport

NextLoad ==
    \/ Tick
    \/ ConfigUpdated
    \/ Alive
    \/ Destroy
    \/ LoadStart
    \/ LoadSucceeds
    \/ LoadFails
    \/ ResolveStep
    \/ CompleteStep

LoadSpec == InitLoad /\ [][NextLoad]_vars

\* Forced requests and unregistrations around reads that terminate: the
\* code of a read runs on when it can, and the timers of its waits fire.
NextLive ==
    \/ Data
    \/ Destroy
    \/ ResolveStep
    \/ OpenStep
    \/ ExhaustedStep
    \/ SendStep
    \/ RetryWaitOverStep
    \/ SettleOverStep
    \/ GetStep
    \/ CompleteStep

LiveSpec ==
    /\ Init
    /\ [][NextLive]_vars
    /\ WF_vars(ResolveStep)
    /\ WF_vars(OpenStep)
    /\ WF_vars(ExhaustedStep)
    /\ WF_vars(SendStep)
    /\ WF_vars(RetryWaitOverStep)
    /\ WF_vars(SettleOverStep)
    /\ WF_vars(GetStep)
    /\ WF_vars(CompleteStep)

\* Reads under a retryCount of 1, of 2.7 and of "Infinity", with no settle
\* delay, on a device whose init write may throw every time.
RetryConfigs ==
    { RawObject(RawUndefined, RawUndefined, RawUndefined, RawUndefined,
                RawNumber(0), retry) :
        retry \in {RawNumber(1), RawFraction(2, 7), RawInfinite} }

InitRetry ==
    /\ \E raw \in RetryConfigs : pluginConfig = buildConfig(raw)
    /\ pollIntervalMs = getPollIntervalMs(pluginConfig)
    /\ Idle
    /\ hid = SmallTransport

RetrySpec ==
    /\ InitRetry
    /\ [][NextLive]_vars
    /\ WF_vars(ResolveStep)
    /\ WF_vars(OpenStep)
    /\ WF_vars(ExhaustedStep)
    /\ WF_vars(SendStep)
    /\ WF_vars(RetryWaitOverStep)
    /\ WF_vars(SettleOverStep)
    /\ WF_vars(GetStep)
    /\ WF_vars(CompleteStep)

\* The config builder on every raw config, pushed or loaded.
InitConfig ==
    /\ pluginConfig = buildConfig(NoRaw)
    /\ pollIntervalMs = pluginConfig.pollIntervalSeconds * 1000
    /\ Idle
    /\ hid = ConfigTransport

NextConfig ==
    \/ ConfigUpdated
    \/ LoadStart
    \/ LoadSucceeds
    \/ LoadFails

ConfigSpec == InitConfig /\ [][NextConfig]_vars

\* ============================================================ claims
\* Frames whose read has started and whose poll has not completed.
ActiveReads == {f \in Frames : frames[f].pc # "free"}

\* A step in which a poll completes (pollAndUpdate runs on from its await).
Completes ==
    \E f \in Frames :
        running = f /\ frames[f].pc = "done" /\ frames'[f].pc # "done"

\* The frame whose poll completes in such a step.
Completing == CHOOSE f \in Frames : running = f /\ frames[f].pc = "done"

\* The reads that start in a step.
Started == {f \in Frames : frames'[f].pc = "resolve" /\ frames[f].pc # "resolve"}

\* A report that passes the validation of the protocol: present, at least
\* four bytes, the first of them the report id 0xF7.
ValidReport(data) ==
    data.present /\ Len(data.bytes) >= 4 /\ data.bytes[1] = 247

\* The percentage a byte stands for: the byte, held to 0..100.
Percent(b) == IF b > 100 THEN 100 ELSE IF b < 0 THEN 0 ELSE b

\* The message the read reports for what the transport did in an attempt.
MessageOf(fault) ==
    CASE fault.step = "open" -> OpenError(fault.msg)
      [] fault.step = "send" -> InitError(fault.attempt, fault.msg)
      [] fault.step = "get" -> ReadError(fault.attempt, fault.msg)
      [] fault.step = "report" -> ReportError(fault.data)
      [] OTHER -> NoError

\* C1: under every interleaving of ticks, forced requests, config updates,
\* config loads and consumer events, at most one read is in progress and at
\* most one device handle is open; a read in progress means pollInFlight.
C1_SingleFlight ==
    /\ Cardinality(ActiveReads) <= 1
    /\ handles <= 1
    /\ ActiveReads # {} => pollInFlight

\* C1 witness: a forced request has arrived while a read holds the device
\* open and waits for the settle delay.
C1_Witness ==
    /\ running = 0
    /\ pendingForcedRefresh
    /\ handles = 1
    /\ \E f \in Frames : frames[f].pc = "settle" /\ frames[f].attempt = 2

\* C2: a handle is open only in the middle of an attempt (between the open
\* and the end of the attempt): none is open at the loop head, while the
\* read waits to retry, or when the read has returned or thrown.
C2_HandleClosed ==
    /\ \A f \in Frames :
          frames[f].pc \in {"free", "resolve", "loop", "retryWait", "done"}
              => frames[f].device # "open"
    /\ handles = Cardinality({f \in Frames : frames[f].pc \in {"send", "settle", "get"}})

\* C2 witness: a read has ended after three attempts that opened the
\* device, the last one failing in getFeatureReport.
C2_Witness ==
    \E f \in Frames :
        /\ frames[f].pc = "done"
        /\ frames[f].opens = 3
        /\ frames[f].fault.step = "get"
        /\ frames[f].device = "closed"

\* C3 as claimed: when a poll completes that received forced requests,
\* exactly one further poll starts.
C3_Original ==
    [][(Completes /\ forcedSeen >= 1) => Cardinality(Started) = 1]_vars

\* C3 amended: when a poll completes that received forced requests, exactly
\* one further poll starts if a consumer is registered and none if not; no
\* poll starts when it received none; the pending flag is cleared.
C3_OneFollowUp ==
    [][Completes =>
          /\ Cardinality(Started) =
                 (IF forcedSeen >= 1 /\ batteryKeys # {} THEN 1 ELSE 0)
          /\ pollInFlight' = (Started # {})
          /\ ~pendingForcedRefresh']_vars

\* C3 witness: a poll that received two forced requests is about to
\* complete with a consumer registered.
C3_Witness ==
    /\ forcedSeen = 2
    /\ batteryKeys # {}
    /\ \E f \in Frames : running = f /\ frames[f].pc = "done"

\* C4 as claimed: a config update that changes the effective interval while
\* the timer runs restarts the timer at the new interval and issues a poll.
C4_TimerRestarted ==
    [][(/\ pluginConfig' # pluginConfig
        /\ configLoads' = configLoads
        /\ pollTimer # 0
        /\ batteryKeys # {}
        /\ getPollIntervalMs(pluginConfig') # pollTimer)
       => (/\ pollTimer' = getPollIntervalMs(pluginConfig')
           /\ (~pollInFlight => pollInFlight'))]_vars

\* C5: when a poll completes, renderAllKeys is called, and the new status
\* becomes the cached one, exactly if the new status differs from the cached
\* one or the poll was started with forceRedraw.
C5_RenderIffChangedOrForced ==
    [][Completes =>
          LET status == statusOf(frames[Completing].outcome)
              wanted == status # latestStatus \/ frames[Completing].forceRedraw
          IN  /\ rendered' = wanted
              /\ latestStatus' = (IF wanted THEN status ELSE latestStatus)
              /\ draws' = (IF wanted THEN batteryKeys ELSE {})]_vars

\* C5 witness: a poll started by a tick is about to complete with the
\* status that is cached already.
C5_Witness ==
    \E f \in Frames :
        /\ running = f
        /\ frames[f].pc = "done"
        /\ ~frames[f].forceRedraw
        /\ statusOf(frames[f].outcome) = latestStatus

\* C6: a valid report in attempt k + 1 ends the read at once with the
\* percentage of that report, after exactly k + 1 attempts, k < retryCount
\* of them failed; and a read gives up only after retryCount failures.
C6_FirstSuccessReturns ==
    \A f \in Frames :
        /\ (frames[f].fault.step = "report" /\ ValidReport(frames[f].fault.data))
              => /\ frames[f].pc = "done"
                 /\ frames[f].outcome = Fulfilled(Percent(frames[f].fault.data.bytes[4]))
                 /\ frames[f].tries = frames[f].fails + 1
                 /\ frames[f].tries = frames[f].fault.attempt
                 /\ frames[f].opens = frames[f].tries
                 /\ frames[f].fails < frames[f].retryCount
        /\ frames[f].outcome.state = "fulfilled"
              => frames[f].fault.step = "report" /\ ValidReport(frames[f].fault.data)
        /\ (frames[f].outcome.state = "rejected" /\ frames[f].tries > 0)
              => frames[f].fails = frames[f].retryCount

\* C6 witness: retryCount = 3, two failed attempts, the third succeeds.
C6_Witness ==
    \E f \in Frames :
        /\ frames[f].pc = "done"
        /\ frames[f].outcome.state = "fulfilled"
        /\ frames[f].retryCount = 3
        /\ frames[f].fails = 2
        /\ frames[f].tries = 3

\* C7: a read that fails after it began attempts has made exactly retryCount
\* of them, all failed, and its error is the message of the last one.
C7_LastErrorOnly ==
    \A f \in Frames :
        (/\ frames[f].outcome.state = "rejected"
         /\ frames[f].targetPath # <<>>)
        => /\ frames[f].retryCount = pluginConfig.retryCount
           /\ frames[f].tries = frames[f].retryCount
           /\ frames[f].fails = frames[f].retryCount
           /\ frames[f].fault.attempt = frames[f].retryCount
           /\ frames[f].outcome.error = MessageOf(frames[f].fault)

\* C7 witness: three attempts failed, the first two otherwise than the last.
C7_Witness ==
    \E f \in Frames :
        /\ frames[f].pc = "done"
        /\ frames[f].outcome.state = "rejected"
        /\ frames[f].tries = 3
        /\ frames[f].fault.step = "send"
        /\ frames[f].outcome.error = InitError(3, "ENODEV")

\* C8: an absent report, one shorter than 4 bytes or one with another first
\* byte fails its attempt with the unexpected-report error, uses up that one
\* attempt, closes the device, and the loop goes on to the next attempt (or
\* ends, when it was the last).
C8_MalformedReport ==
    \A f \in Frames :
        (frames[f].fault.step = "report" /\ ~ValidReport(frames[f].fault.data))
        => /\ frames[f].lastError = ReportError(frames[f].fault.data)
           /\ frames[f].outcome.state # "fulfilled"
           /\ frames[f].fails = frames[f].tries
           /\ frames[f].tries = frames[f].fault.attempt
           /\ frames[f].attempt = frames[f].fault.attempt + 1
           /\ frames[f].device = "closed"
           /\ \/ frames[f].pc = "loop"
              \/ /\ frames[f].pc = "done"
                 /\ frames[f].tries = frames[f].retryCount
                 /\ frames[f].outcome = Rejected(ReportError(frames[f].fault.data))

\* C8 witness: a report of three bytes in the first of several attempts.
C8_Witness ==
    \E f \in Frames :
        /\ frames[f].pc = "loop"
        /\ frames[f].fault = Fault("report", 1, "", Report(<<247, 0, 0>>))
        /\ frames[f].attempt = 2
        /\ frames[f].retryCount >= 2

\* C9: the read returns min(100, max(0, b)) for the byte b at offset 3 of a
\* valid report, and a cached Value status holds a percentage in 0..100.
C9_Clamped ==
    /\ \A f \in Frames :
          frames[f].outcome.state = "fulfilled"
              => /\ frames[f].fault.data.bytes[4] \in 0..255
                 /\ frames[f].outcome.value = Percent(frames[f].fault.data.bytes[4])
                 /\ frames[f].fault.data.bytes[4] = 57 => frames[f].outcome.value = 57
                 /\ frames[f].fault.data.bytes[4] = 250 => frames[f].outcome.value = 100
    /\ latestStatus.kind = "value" => latestStatus.value \in 0..100

\* C9 witness: the byte 250 was read and 100 is the cached percentage.
C9_Witness ==
    /\ latestStatus = ValueStatus(100)
    /\ \E f \in Frames :
          /\ frames[f].outcome.state = "fulfilled"
          /\ frames[f].fault.data.bytes[4] = 250

\* C10: with no hidPath, a failed enumeration or an enumeration without a
\* match ends the read at once: one enumeration, no attempt, no open.
C10_NotFoundShortCircuits ==
    \A f \in Frames :
        (frames[f].enumerations > 0 /\ frames[f].targetPath = <<>>)
        => /\ frames[f].pc = "done"
           /\ frames[f].outcome.state = "rejected"
           /\ frames[f].outcome.error.kind \in
                  {"Unable to enumerate HID devices", "Device not found"}
           /\ frames[f].enumerations = 1
           /\ frames[f].attempt = 0
           /\ frames[f].tries = 0
           /\ frames[f].opens = 0
           /\ frames[f].device = "none"
           /\ handles = 0

\* C10 witness: a read with retryCount 3 ended on a device that is not found.
C10_Witness ==
    \E f \in Frames :
        /\ frames[f].pc = "done"
        /\ frames[f].retryCount = 3
        /\ frames[f].outcome = Rejected(NotFoundError(DEFAULT_VENDOR_ID, DEFAULT_PRODUCT_ID))

\* C11: with a hidPath configured, a read never enumerates devices and every
\* attempt opens exactly that path, whatever vendor and product ids are set.
C11_PinnedPathBypassesLocator ==
    \A f \in Frames :
        (frames[f].pc # "free" /\ pluginConfig.hidPath # <<>>)
        => /\ frames[f].enumerations = 0
           /\ frames[f].listed = <<>>
           /\ frames[f].targetPath = pluginConfig.hidPath
           /\ frames[f].paths \subseteq {pluginConfig.hidPath}
           /\ frames[f].opens > 0 => frames[f].paths = {pluginConfig.hidPath}

\* C11 witness: two attempts have opened the pinned path while the ids of a
\* device the locator would find are configured too.
C11_Witness ==
    \E f \in Frames :
        /\ pluginConfig.hidPath = <<"p", "1">>
        /\ frames[f].targetVid = 12625
        /\ frames[f].targetPid = 20487
        /\ frames[f].opens = 2
        /\ frames[f].paths = {<<"p", "1">>}
        /\ frames[f].enumerations = 0

\* A path that holds mi_02, in whatever case of the letters.
HoldsMi02(path) ==
    \E i \in 1..(Len(path) - 4) :
        /\ path[i] \in {"m", "M"}
        /\ path[i + 1] \in {"i", "I"}
        /\ path[i + 2] = "_"
        /\ path[i + 3] = "0"
        /\ path[i + 4] = "2"

\* The interface number of an enumerated entry, NoIface when it has none.
IfaceOf(info) ==
    IF info.interface # NoIface THEN info.interface ELSE info.interfaceNumber

\* The selection policy on the candidates cand (positions of frame f's
\* enumeration): one on interface 2, else one with mi_02 in its path, else
\* the first; not-found when there is none.
Selects(f, cand) ==
    LET devs == frames[f].listed
        two == {i \in cand : IfaceOf(devs[i]) = 2}
        mi == {i \in cand : HoldsMi02(devs[i].path)}
        first == CHOOSE i \in cand : \A j \in cand : i <= j
        found == frames[f].outcome.state # "rejected"
    IN  IF cand = {}
        THEN frames[f].outcome =
                 Rejected(NotFoundError(frames[f].targetVid, frames[f].targetPid))
        ELSE /\ found
             /\ IF two # {} THEN \E i \in two : frames[f].targetPath = devs[i].path
                ELSE IF mi # {} THEN \E i \in mi : frames[f].targetPath = devs[i].path
                ELSE frames[f].targetPath = devs[first].path

\* The entries of frame f's enumeration with the wanted vendor and product.
Matching(f) ==
    {i \in 1..Len(frames[f].listed) :
        /\ frames[f].listed[i].vendorId = frames[f].targetVid
        /\ frames[f].listed[i].productId = frames[f].targetPid}

\* C12 as claimed: the policy applies to the entries matching vendor and
\* product.
C12_Original ==
    \A f \in Frames : frames[f].enumerations = 1 => Selects(f, Matching(f))

\* C12 amended: the policy applies to the entries matching vendor and
\* product that have a usable (non-empty) path.
C12_SelectionPolicy ==
    \A f \in Frames :
        frames[f].enumerations = 1
        => Selects(f, {i \in Matching(f) : frames[f].listed[i].path # <<>>})

\* C12 witness: of a plain device, one with MI_02 in its path and one on
\* interface 2, enumerated in this order, the last was chosen and opened.
C12_Witness ==
    \E f \in Frames :
        /\ Len(frames[f].listed) = 3
        /\ frames[f].listed[1].path = <<"a">>
        /\ HoldsMi02(frames[f].listed[2].path)
        /\ frames[f].listed[2].vendorId = 12625
        /\ IfaceOf(frames[f].listed[3]) = 2
        /\ frames[f].paths = {<<"b">>}

\* C13 as claimed: whenever the set of registered keys is empty the interval
\* timer is cancelled, and a step that makes the set non-empty leaves the
\* timer running.
C13_TimerFollowsConsumers ==
    [][/\ batteryKeys' = {} => pollTimer' = 0
       /\ (batteryKeys = {} /\ batteryKeys' # {}) => pollTimer' # 0]_vars

\* Statuses to compare: Unknown, Value{5}, Value{6}, Error{"x", a},
\* Error{"x", b}, Error{"y", a}, the cached status and the status of every
\* settled read.
StatusesSeen ==
    { [kind |-> "unknown", label |-> "waiting", value |-> -1, detail |-> NoError],
      [kind |-> "value", label |-> "%", value |-> 5, detail |-> NoError],
      [kind |-> "value", label |-> "%", value |-> 6, detail |-> NoError],
      [kind |-> "error", label |-> "x", value |-> -1, detail |-> OpenError("EBUSY")],
      [kind |-> "error", label |-> "x", value |-> -1, detail |-> OpenError("ENODEV")],
      [kind |-> "error", label |-> "y", value |-> -1, detail |-> OpenError("EBUSY")],
      latestStatus }
    \cup {statusOf(frames[f].outcome) : f \in {g \in Frames : frames[g].pc = "done"}}

\* C14: statusesEqual is reflexive and symmetric; two Value statuses are
\* equal exactly if their percentages are, two Error statuses exactly if
\* their labels and their details are.
C14_EqualityLaws ==
    \A a \in StatusesSeen :
        /\ statusesEqual(a, a)
        /\ \A b \in StatusesSeen :
              /\ statusesEqual(a, b) <=> statusesEqual(b, a)
              /\ (a.kind = "value" /\ b.kind = "value")
                    => (statusesEqual(a, b) <=> a.value = b.value)
              /\ (a.kind = "error" /\ b.kind = "error")
                    => (statusesEqual(a, b)
                          <=> (a.label = b.label /\ a.detail = b.detail))

\* C14 witness: a read has failed, to be compared with a cached Error
\* status of the same label and another detail.
C14_Witness ==
    \E f \in Frames :
        /\ running = f
        /\ frames[f].pc = "done"
        /\ frames[f].outcome.state = "rejected"
        /\ latestStatus.kind = "error"
        /\ latestStatus.label = "error"
        /\ latestStatus.detail # frames[f].outcome.error

\* C15 as claimed: Unknown is unequal to every status, Unknown included,
\* and statuses of different kinds are unequal.
C15_Original ==
    \A s \in StatusesSeen :
        /\ ~statusesEqual(UnknownStatus, s)
        /\ ~statusesEqual(s, UnknownStatus)
        /\ \A t \in StatusesSeen : s.kind # t.kind => ~statusesEqual(s, t)

\* C15 amended: Unknown is unequal to every Value and every Error status,
\* in both orders, and statuses of different kinds are unequal; Unknown is
\* equal to Unknown.
C15_UnknownUnequalToOthers ==
    \A s \in StatusesSeen :
        /\ s.kind \in {"value", "error"}
              => ~statusesEqual(UnknownStatus, s) /\ ~statusesEqual(s, UnknownStatus)
        /\ s.kind = "unknown" => statusesEqual(UnknownStatus, s)
        /\ \A t \in StatusesSeen : s.kind # t.kind => ~statusesEqual(s, t)

\* C15 witness: the first read has settled and its status is to be compared
\* with the cached Unknown.
C15_Witness ==
    \E f \in Frames :
        /\ running = f
        /\ frames[f].pc = "done"
        /\ latestStatus.kind = "unknown"
        /\ statusOf(frames[f].outcome).kind = "value"

\* The delay of the backoff after n retries: 1000, 2000, 4000, 8000, then
\* 10000 for ever.
Backoff(n) ==
    CASE n = 0 -> 1000
      [] n = 1 -> 2000
      [] n = 2 -> 4000
      [] n = 3 -> 8000
      [] OTHER -> 10000

\* The load of the step's end failed for a transport not ready: the error
\* is an Error whose message holds both phrases the plugin looks for.
FailedNotReady ==
    /\ loadOutcome'.state = "failed"
    /\ ~loadOutcome'.error.falsy
    /\ \E i \in 1..Len(loadOutcome'.error.message) :
          loadOutcome'.error.message[i] = "Cannot read properties of null"
    /\ \E i \in 1..Len(loadOutcome'.error.message) :
          loadOutcome'.error.message[i] = "send"

\* The load of the step's end failed otherwise.
FailedOtherwise == loadOutcome'.state = "failed" /\ ~FailedNotReady

\* C16: a load that fails for a transport not ready schedules a retry after
\* min(1000 * 2^attempt, 10000) ms and counts it; a successful load and a
\* pushed config reset the count to 0; nothing else changes the count.
C16_Backoff ==
    [][/\ FailedNotReady
          => /\ configRetryTimer = 0
             /\ configRetryTimer' = Backoff(configRetryAttempts)
             /\ configRetryAttempts' = configRetryAttempts + 1
       /\ loadOutcome'.state = "loaded"
          => configRetryAttempts' = 0 /\ configRetryTimer' = 0
       /\ (loadOutcome'.state = "none" /\ pluginConfig' # pluginConfig)
          => configRetryAttempts' = 0 /\ configRetryTimer' = 0
       /\ (loadOutcome'.state = "none" /\ pluginConfig' = pluginConfig)
          => configRetryAttempts' \in {configRetryAttempts, 0}
       /\ FailedOtherwise => configRetryAttempts' = configRetryAttempts]_vars

\* C16 witness: the sixth retry in a row is scheduled, the second one at
\* the cap of 10000 ms.
C16_Witness ==
    /\ loadOutcome.state = "failed"
    /\ configRetryAttempts = 6
    /\ configRetryTimer = 10000

\* C17: a load that fails otherwise than for a transport not ready makes
\* the default configuration the current one and schedules no retry.
C17_FallbackToDefaults ==
    [][FailedOtherwise
          => /\ pluginConfig' =
                    [hidPath |-> <<>>, vid |-> <<>>, pid |-> <<>>,
                     pollIntervalSeconds |-> 30, initDelayMs |-> 50,
                     retryCount |-> 3]
             /\ pollIntervalMs' = 30000
             /\ configRetryTimer = 0
             /\ configRetryTimer' = 0
             /\ configRetryAttempts' = configRetryAttempts]_vars

\* C17 witness: after a retry, a load has failed with a null dereference
\* that is not the one of a transport not ready; no retry is scheduled.
C17_Witness ==
    /\ loadOutcome.state = "failed"
    /\ loadOutcome.error.message = <<"Cannot read properties of null", " (reading '", "on", "')">>
    /\ configRetryAttempts = 1
    /\ configRetryTimer = 0
    /\ pluginConfig.pollIntervalSeconds = 30

\* C18: a poll whose read failed completes with the cached status an Error
\* of label "error" and the failure's message as detail, a poll whose read
\* succeeded with a Value of the returned percentage; either way the poll
\* is over: its frame is released and pollInFlight tells only of a
\* follow-up poll.
C18_FailureBecomesStatus ==
    [][Completes =>
          LET o == frames[Completing].outcome
          IN  /\ o.state \in {"fulfilled", "rejected"}
              /\ o.state = "rejected"
                    => /\ latestStatus'.kind = "error"
                       /\ latestStatus'.label = "error"
                       /\ latestStatus'.detail = o.error
                       /\ o.error.kind # "null"
              /\ o.state = "fulfilled"
                    => /\ latestStatus'.kind = "value"
                       /\ latestStatus'.value = o.value
              /\ frames'[Completing].pc \in {"free", "resolve"}
              /\ pollInFlight' = (Started # {})]_vars

\* C18 witness: a poll started by a tick has failed in its second attempt
\* while a Value is cached.
C18_Witness ==
    \E f \in Frames :
        /\ running = f
        /\ frames[f].pc = "done"
        /\ ~frames[f].forceRedraw
        /\ frames[f].outcome.state = "rejected"
        /\ frames[f].tries = 2
        /\ latestStatus.kind = "value"

\* The interval of a configured number of seconds: 1000 times as many
\* milliseconds, and 5000 at least.
Floored(seconds) == IF seconds * 1000 < 5000 THEN 5000 ELSE seconds * 1000

ForcedPollActive ==
    \E f \in Frames : frames[f].pc # "free" /\ frames[f].forceRedraw

\* A poll with forceRedraw has just started and no request is pending.
ForcedPollStarted ==
    /\ ~pendingForcedRefresh
    /\ \E f \in Frames : frames[f].pc = "resolve" /\ frames[f].forceRedraw

\* C20 as claimed: a pending forced request leads to the start of a poll
\* with forceRedraw, and a poll with forceRedraw leads to a render.
C20_Original ==
    /\ pendingForcedRefresh ~> ForcedPollStarted
    /\ ForcedPollActive ~> rendered

\* C20 amended: a pending forced request leads to the completion of the
\* poll in flight, where a poll with forceRedraw starts if a key is
\* registered; and a poll with forceRedraw leads to a render.
C20_ForcedHonored ==
    /\ pendingForcedRefresh
          ~> (~pendingForcedRefresh /\ (batteryKeys = {} \/ ForcedPollStarted))
    /\ ForcedPollActive ~> rendered

\* C20 witness: a poll that received a forced request has settled, with a
\* key registered.
C20_Witness ==
    /\ pendingForcedRefresh
    /\ batteryKeys # {}
    /\ forcedSeen = 1
    /\ \E f \in Frames : running = f /\ frames[f].pc = "done"

\* C21 as claimed: a step that takes a pushed config makes the config built
\* from it the current one, and a config load that fails leaves the current
\* config as it is.
C21_PushSupersedes ==
    [][/\ (loadOutcome'.state = "none" /\ pluginConfig' # pluginConfig)
          => \E raw \in RawConfigs : pluginConfig' = buildConfig(raw)
       /\ loadOutcome'.state = "failed" => pluginConfig' = pluginConfig]_vars

\* C22: the calls of an attempt come in the order open, activation write,
\* settle delay, telemetry read, close: the report is asked for only as the
\* fourth step, after an open and a write that succeeded and the settle
\* delay; the write only after a successful open; a close only after the
\* open and with nothing but closes after it; an attempt that is over has
\* closed what it opened.
C22_AttemptOrder ==
    \A f \in Frames :
        LET o == frames[f].ops
        IN  /\ \A i \in 1..Len(o) :
                  /\ o[i] \in {"open", "open!"} => i = 1
                  /\ o[i] \in {"send", "send!"} => i = 2 /\ o[1] = "open"
                  /\ o[i] = "settle" => i = 3 /\ o[2] = "send"
                  /\ o[i] \in {"get", "get!"} => i = 4 /\ o[3] = "settle"
                  /\ o[i] = "close"
                        => /\ o[1] = "open"
                           /\ i > 2
                           /\ \A j \in i..Len(o) : o[j] = "close"
            /\ (frames[f].pc \in {"loop", "retryWait", "done"} /\ o # <<>> /\ o[1] = "open")
                  => o[Len(o)] = "close"

\* C22 witness: an attempt ran through all five steps.
C22_Witness ==
    \E f \in Frames :
        /\ frames[f].ops = <<"open", "send", "settle", "get", "close", "close">>
        /\ frames[f].initDelay = 50
        /\ frames[f].outcome.state = "fulfilled"

\* A raw field that is absent or not numeric: not a number or a string, or
\* a string that is no numeral.
NotNumeric(f) == f.t \notin {"string", "number"} \/ f.nan

\* C23: the config built from any raw config has retryCount an integer of
\* at least 1, initDelayMs at least 0 and pollIntervalSeconds above 0, and
\* every absent, non-numeric, negative or (for retryCount and
\* pollIntervalSeconds) zero field is replaced by its default 3, 50 or 30.
C23_BuiltConfigValid ==
    rawConfig.given =>
        LET raw == rawConfig.raw
            built == pluginConfig
        IN  /\ built.retryCount >= 1
            /\ built.retryCount # Infinity
            /\ built.initDelayMs >= 0
            /\ built.pollIntervalSeconds > 0
            /\ ~raw.isObject =>
                  /\ built.retryCount = 3
                  /\ built.initDelayMs = 50
                  /\ built.pollIntervalSeconds = 30
            /\ raw.isObject =>
                  /\ (NotNumeric(raw.retryCount) \/ NumberOf(raw.retryCount) < 1)
                        => built.retryCount = 3
                  /\ (NotNumeric(raw.initDelayMs) \/ NumberOf(raw.initDelayMs) < 0)
                        => built.initDelayMs = 50
                  /\ (raw.pollIntervalSeconds.nan \/ NumberOf(raw.pollIntervalSeconds) <= 0)
                        => built.pollIntervalSeconds = 30

\* C24: a timer tick that arrives while a poll is in flight is dropped: it
\* starts no read and leaves pollInFlight, pendingForcedRefresh, the cached
\* status and the timer as they are; and the completion of a poll starts
\* another poll only if a forced request was received while it was in
\* flight, never on account of a tick.
C24_TickDropped ==
    [][/\ dropped' => UNCHANGED <<pollInFlight, pendingForcedRefresh,
                                  latestStatus, pollTimer, frames, running,
                                  handles>>
       /\ (running # 0 /\ frames[running].pc = "done" /\ pollInFlight')
             => forcedSeen > 0]_vars

\* C24 witness: a tick was dropped by a poll in flight that no forced
\* request is waiting for.
C24_Witness ==
    /\ dropped
    /\ pollInFlight
    /\ ~pendingForcedRefresh
    /\ pollTimer # 0
    /\ \E f \in Frames : frames[f].pc \notin {"free", "done"}

\* C25: the cached status starts as Unknown, and a step changes it only if
\* the step is the completion of a poll whose result differs from it or
\* whose redraw was demanded, and then to that result; dropped ticks, forced
\* requests, config updates, config loads and alive and destroy events
\* leave it as it is.
C25_StatusChangesAtCompletion ==
    /\ latestStatus = UnknownStatus
    /\ [][latestStatus' # latestStatus
            => /\ running # 0
               /\ frames[running].pc = "done"
               /\ \/ ~statusesEqual(statusOf(frames[running].outcome), latestStatus)
                  \/ frames[running].forceRedraw
               /\ latestStatus' = statusOf(frames[running].outcome)]_vars

\* C25 witness: the completion of a poll has just committed an error as
\* the cached status, with keys registered and the timer running.
C25_Witness ==
    /\ rendered
    /\ latestStatus.kind = "error"
    /\ batteryKeys # {}
    /\ pollTimer # 0

\* C26: every title drawn is that of the cached status as it is when the
\* draw is made: the value with "%" for a value, "ERR" for an error, "--"
\* for Unknown; and when a read succeeded after failed attempts, its
\* completion commits no error and draws nothing but the value read.
C26_OnlyCommittedShown ==
    [][/\ \A t \in titles' :
             /\ latestStatus'.kind = "value"
                   => t = Title("%", latestStatus'.value)
             /\ latestStatus'.kind = "error" => t = Title("ERR", NoValue)
             /\ latestStatus'.kind = "unknown" => t = Title("--", NoValue)
       /\ titles' # {} => draws' # {}
       /\ (/\ running # 0
           /\ frames[running].pc = "done"
           /\ frames[running].outcome.state = "fulfilled")
             => /\ latestStatus' \in {latestStatus,
                                       ValueStatus(frames[running].outcome.value)}
                /\ titles' \subseteq
                       {Title("%", frames[running].outcome.value)}]_vars

\* C26 witness: a read whose first attempt failed has succeeded and awaits
\* its completion, with a key to draw on.
C26_Witness ==
    \E f \in Frames :
        /\ running = f
        /\ frames[f].pc = "done"
        /\ frames[f].outcome.state = "fulfilled"
        /\ frames[f].fails > 0
        /\ batteryKeys # {}

\* C27: every poll that was started terminates: its read makes at most
\* retryCount attempts and opens the device at most retryCount times, and
\* then returns or fails; and the completion of a poll leaves pollInFlight
\* false unless a forced refresh was pending and keys are registered, when
\* the next poll is started at once.
C27_PollTerminates ==
    /\ [](\A f \in Frames : /\ frames[f].tries <= frames[f].retryCount
                            /\ frames[f].opens <= frames[f].retryCount)
    /\ [][(running # 0 /\ frames[running].pc = "done")
            => pollInFlight' = (pendingForcedRefresh /\ batteryKeys # {})]_vars
    /\ \A f \in Frames :
          (frames[f].pc \notin {"free", "done"}) ~> (frames[f].pc = "done")

\* C28: the step that unregisters the last key leaves the read in flight
\* as it is; the read then runs on until it returns or fails; and a poll
\* that completes while no key is registered clears pollInFlight and draws
\* on no key.
C28_ReadOutlivesConsumers ==
    /\ [][(batteryKeys # {} /\ batteryKeys' = {})
            => UNCHANGED <<frames, pollInFlight, pendingForcedRefresh,
                           handles>>]_vars
    /\ [][(running # 0 /\ frames[running].pc = "done" /\ batteryKeys = {})
            => /\ ~pollInFlight'
               /\ draws' = {}
               /\ titles' = {}]_vars
    /\ \A f \in Frames :
          (batteryKeys = {} /\ frames[f].pc \notin {"free", "done"})
              ~> (frames[f].pc = "done")

\* C28 witness: a poll has completed and committed its result while no key
\* was registered, and nothing was drawn.
C28_Witness ==
    /\ rendered
    /\ batteryKeys = {}
    /\ draws = {}
    /\ ~pollInFlight
    /\ latestStatus # UnknownStatus

\* C29: whenever the interval timer is running, the period it was started
\* with is the effective interval of the current config, the larger of
\* 5000 ms and pollIntervalSeconds * 1000.
C29_TimerPeriodCurrent ==
    pollTimer # 0 =>
        pollTimer = Max(MIN_POLL_INTERVAL_MS,
                        pluginConfig.pollIntervalSeconds * 1000)

\* C30: between any two steps pendingForcedRefresh is true only while a
\* poll is in flight, and the completion of a poll leaves it false.
C30_PendingOnlyInFlight ==
    /\ [](pendingForcedRefresh => pollInFlight)
    /\ [][(running # 0 /\ frames[running].pc = "done")
            => ~pendingForcedRefresh']_vars

\* C30 witness: a poll has just completed with a forced refresh pending:
\* the flag is cleared and the next poll is on its way.
C30_Witness ==
    /\ rendered
    /\ ~pendingForcedRefresh
    /\ pollInFlight
    /\ running # 0
    /\ frames[running].pc = "resolve"

\* C31: whenever the interval timer is running, at least one key is
\* registered, whatever alive, data, destroy, config and load events came.
C31_TimerHasConsumers == pollTimer # 0 => batteryKeys # {}

\* C31 witness: after a config event that changed the interval, the last
\* key was unregistered while a poll was in flight, and no timer runs.
C31_Witness ==
    /\ batteryKeys = {}
    /\ pollTimer = 0
    /\ pollInFlight
    /\ pollIntervalMs # DEFAULT_CONFIG.pollIntervalSeconds * 1000

\* C32: no read is started while no key is registered: a step that starts
\* a read or sets pollInFlight ends with a key registered, and the
\* completion of a poll that finds no key, a forced refresh pending or
\* not, starts no read, opens no device and leaves pollInFlight false.
C32_NoReadWithoutConsumers ==
    [][/\ (\E f \in Frames : /\ frames'[f].pc = "resolve"
                              /\ frames[f].pc # "resolve")
             => batteryKeys' # {}
       /\ (~pollInFlight /\ pollInFlight') => batteryKeys' # {}
       /\ (running # 0 /\ frames[running].pc = "done" /\ batteryKeys = {})
             => /\ ~pollInFlight'
                /\ running' = 0
                /\ handles' = handles
                /\ \A f \in Frames : frames'[f].pc # "resolve"]_vars

\* C32 witness: a poll is about to complete with a forced refresh pending
\* and no key left, so that its follow-up poll finds no consumer.
C32_Witness ==
    /\ running # 0
    /\ frames[running].pc = "done"
    /\ pendingForcedRefresh
    /\ batteryKeys = {}

\* C33: a cached status that is not Unknown never becomes Unknown again,
\* and every status a poll commits is a value or an error.
C33_UnknownOnlyAtStart ==
    [][/\ latestStatus.kind # "unknown" => latestStatus'.kind # "unknown"
       /\ rendered' => latestStatus'.kind \in {"value", "error"}]_vars

\* C33 witness: a value was committed, then the last key was unregistered
\* and the plugin is idle again; the cached status is still that value.
C33_Witness ==
    /\ latestStatus.kind = "value"
    /\ ~rendered
    /\ batteryKeys = {}
    /\ pollTimer = 0
    /\ ~pollInFlight

\* C34: the host never holds more than one config retry timeout, the one
\* configRetryTimer names; and a pushed config update or a successful
\* load leaves none pending, so that no timeout scheduled before it fires
\* after it.
C34_OneRetryTimer ==
    /\ [](/\ retryTimers <= 1
          /\ retryTimers = (IF configRetryTimer # 0 THEN 1 ELSE 0))
    /\ [][rawConfig'.given => /\ retryTimers' = 0
                              /\ configRetryTimer' = 0]_vars

\* C34 witness: a pushed config update has just cancelled the pending
\* retry timeout, while the load the timeout was to repeat is not running.
C34_Witness ==
    /\ cancelled
    /\ rawConfig.given
    /\ loadOutcome = NoLoad
    /\ retryTimers = 0
    /\ configLoads = 0

====
